---- MODULE Spec2Model ----
(***************************************************************************)
(* Lazy streams of noulith (src/src/streams.rs): Repeat, Cycle, Range, the *)
(* combinatorial enumerators, the functional combinators and HeapStream.   *)
(* A stream is a record; every `next` is an operator from a stream (and    *)
(* the store of reference-counted index vectors) to the stream after the   *)
(* pull, the store after the pull and the pulled Option<NRes<Obj>>.        *)
(* Two handles are kept: the original stream and a second one made from it *)
(* by clone_box or by reversed.                                            *)
(***************************************************************************)
EXTENDS Integers, Sequences, FiniteSets, TLC

VARIABLES strm, out, heap, ctor, ctorHeap, forkAt, forkMode, crashed, nrev, idx

vars == <<strm, out, heap, ctor, ctorHeap, forkAt, forkMode, crashed, nrev, idx>>

(* ------------------------------ bounds -------------------------------- *)

\* Pulls made through both handles together.
MaxPulls == 10
\* Length of the source buffers (Cycle, combinatorial enumerators).
MaxBuf == 3
\* Length of the index vector of CartesianPower; Combinations take one more.
MaxVec == 2
\* Range start and end are drawn from -MaxRange..MaxRange.
MaxRange == 2
\* Range steps are drawn from -MaxStep..MaxStep.
MaxStep == 2
\* The numbers at which a callable may fault: 0..MaxFault.
MaxFault == 2
\* The inner streams of the combinators end at 0..MaxInner.
MaxInner == 3
\* Strides of StridedStream: 0..MaxStride.
MaxStride == 3
\* Seeds of HeapStream: 0..MaxSeed.
MaxSeed == 5
\* Pulls looked ahead when two streams' coming outputs are compared.
MaxLook == 3
\* Signed offsets handed to pythonic_index_isize: -MaxIndex..MaxIndex.
MaxIndex == 4
\* In-place reversals of a Cycle.
MaxRev == 2

(* ------------------------------ values -------------------------------- *)

\* Obj: a number, a list of numbers, or Null (what std::mem::take leaves).
Num(n) == [t |-> "Num", n |-> n, l |-> <<>>]
List(l) == [t |-> "List", n |-> 0, l |-> l]
Null == [t |-> "Null", n |-> 0, l |-> <<>>]

\* Option<NRes<Obj>>: None, Some(Ok(v)), Some(Err(e)); Panic is a pull that
\* aborted the program (index out of bounds, arithmetic overflow).
None == [tag |-> "None", v |-> Null, e |-> ""]
Ok(v) == [tag |-> "Ok", v |-> v, e |-> ""]
Err(e) == [tag |-> "Err", v |-> Null, e |-> e]
Panic == [tag |-> "Panic", v |-> Null, e |-> ""]

\* NErr::Break(None), the graceful-termination fault.
Break == "Break"
\* A fault raised by user code.
Throw == "Throw"
\* NErr::type_error.
TypeError == "TypeError"

\* Option<usize>::None as a length.
LenNone == -1

NoStream == [kind |-> "NoStream"]

Handles == {"orig", "fork"}

\* The source buffer of n distinct elements.
Buf(n) == [i \in 1..n |-> 10 * i]

\* v[i] and self.0[i] with the source's 0-based index.
At(v, i) == v[i + 1]

Rev(v) == [i \in 1..Len(v) |-> v[Len(v) + 1 - i]]

Max(a, b) == IF a >= b THEN a ELSE b

Abs(a) == IF a < 0 THEN -a ELSE a

\* BigInt and isize division truncate toward zero.
TruncDiv(a, b) ==
    LET q == Abs(a) \div Abs(b)
    IN IF (a < 0) = (b < 0) THEN q ELSE -q

TruncRem(a, b) == a - b * TruncDiv(a, b)

\* isize::rem_euclid.
RemEuclid(a, b) ==
    LET r == TruncRem(a, b)
    IN IF r < 0 THEN r + Abs(b) ELSE r

\* BigInt::to_usize (the width of usize is beyond the numbers drawn here).
ToUsize(x) == IF x >= 0 THEN x ELSE LenNone

(* ------------------- Rc<Vec<_>>: the index-state store ------------------ *)

\* A store is a sequence of cells [rc, val]; rc = 0 is a freed cell. An
\* address is an index into it; address 0 is Option::None.
FreeCell == [rc |-> 0, val |-> <<>>]

FreeAddrs(h) == {a \in 1..Len(h) : h[a].rc = 0}

RcAlloc(h) ==
    IF FreeAddrs(h) = {} THEN Len(h) + 1
    ELSE CHOOSE a \in FreeAddrs(h) : \A b \in FreeAddrs(h) : a <= b

\* Rc::new(val)
RcNew(h, val) ==
    LET a == RcAlloc(h)
        c == [rc |-> 1, val |-> val]
    IN [h |-> IF a > Len(h) THEN Append(h, c) ELSE [h EXCEPT ![a] = c],
        a |-> a]

\* Rc::clone
RcClone(h, a) == [h EXCEPT ![a].rc = @ + 1]

\* drop(Rc)
RcDrop(h, a) ==
    IF h[a].rc = 1 THEN [h EXCEPT ![a] = FreeCell]
    ELSE [h EXCEPT ![a].rc = @ - 1]

\* Rc::make_mut with the vector always written through the shared cell.
RcMakeMutInPlace(h, a) == [h |-> h, a |-> a]

\* Rc::make_mut: a uniquely owned vector is handed out as it is, a shared
\* one is cloned into a fresh cell first.
RcMakeMut(h, a) ==
    IF h[a].rc = 1 THEN [h |-> h, a |-> a]
    ELSE RcNew(RcDrop(h, a), h[a].val)

RcSet(h, a, val) == [h EXCEPT ![a].val = val]

(* ------------------------------- Repeat -------------------------------- *)

RepeatNext(s) == [s |-> s, r |-> Ok(s.v)]

RepeatLen(s) == LenNone

(* ------------------------------- Cycle --------------------------------- *)

\* Cycle::next with the cursor left unwrapped.
CycleNextNoWrap(s) ==
    IF s.cur >= Len(s.buf) THEN [s |-> s, r |-> Panic]
    ELSE [s |-> [s EXCEPT !.cur = s.cur + 1], r |-> Ok(Num(At(s.buf, s.cur)))]

CycleNext(s) ==
    IF s.cur >= Len(s.buf) THEN [s |-> s, r |-> Panic]
    ELSE [s |-> [s EXCEPT !.cur = (s.cur + 1) % Len(s.buf)],
          r |-> Ok(Num(At(s.buf, s.cur)))]

CycleLen(s) == LenNone

\* Cycle::pythonic_index_isize with the remainder of truncating division.
CycleIndexTruncRem(s, i) ==
    LET k == TruncRem(s.cur + i, Len(s.buf))
    IN IF k < 0 THEN Panic ELSE Ok(Num(At(s.buf, k)))

CyclePythonicIndex(s, i) ==
    Ok(Num(At(s.buf, RemEuclid(s.cur + i, Len(s.buf)))))

\* Cycle::reversed keeping the cursor as it is.
CycleReversedSameCursor(s) == [s EXCEPT !.buf = Rev(s.buf)]

CycleReversed(s) ==
    LET v == Rev(s.buf)
    IN [s EXCEPT !.buf = v, !.cur = (Len(v) - s.cur) % Len(v)]

(* ------------------------------- Range --------------------------------- *)

RangeEmpty(s) ==
    IF ~s.hasEnd THEN FALSE
    ELSE IF s.step < 0 THEN s.start <= s.end
    ELSE s.start >= s.end

RangeNext(s) ==
    IF RangeEmpty(s) THEN [s |-> s, r |-> None]
    ELSE [s |-> [s EXCEPT !.start = s.start + s.step], r |-> Ok(Num(s.start))]

RangeLen(s) ==
    IF ~s.hasEnd THEN LenNone
    ELSE IF s.step = 0 THEN (IF s.start < s.end THEN LenNone ELSE 0)
    ELSE IF s.step < 0
      THEN ToUsize(TruncDiv(Max(s.end - s.start - s.step + 1, 0), -s.step))
    ELSE ToUsize(TruncDiv(Max(s.end - s.start + s.step - 1, 0), s.step))

(* ----------------------- combinatorial enumerators --------------------- *)

\* The identity index vector 0, 1, ..., n-1.
Iota(n) == [i \in 1..n |-> i - 1]

\* v.iter().map(|i| self.0[*i].clone()).collect()
Materialize(buf, v) == [i \in 1..Len(v) |-> At(buf, v[i])]

\* Some index of v is no index of buf: self.0[*i] panics.
OutOfBounds(buf, v) == \E i \in 1..Len(v) : v[i] >= Len(buf)

\* v.swap(a, b)
Swap(v, a, b) ==
    [i \in 1..Len(v) |->
        IF i = a + 1 THEN At(v, b) ELSE IF i = b + 1 THEN At(v, a) ELSE v[i]]

\* v[a..].reverse()
ReverseFrom(v, a) ==
    [i \in 1..Len(v) |-> IF i <= a THEN v[i] ELSE v[Len(v) + a + 1 - i]]

\* The loop of Permutations::next from index i on: up is <<>> (None) or the
\* pair <<inc, linc>>.
RECURSIVE PermScan(_, _, _)
PermScan(v, i, up) ==
    IF i >= Len(v) - 1 THEN up
    ELSE PermScan(v, i + 1,
            IF At(v, i) < At(v, i + 1) THEN <<i, i + 1>>
            ELSE IF up # <<>> /\ At(v, i + 1) > At(v, up[1]) THEN <<up[1], i + 1>>
            ELSE up)

\* Permutations::next. On an empty index vector v.len() - 1 underflows: a
\* panic with overflow checks, and without them the loop reads v[0] of an
\* empty vector, a panic as well.
PermutationsNext(s, h) ==
    IF s.st = 0 THEN [s |-> s, h |-> h, r |-> None]
    ELSE LET mm == RcMakeMut(h, s.st)
             v == mm.h[mm.a].val
             up == PermScan(v, 0, <<>>)
         IN IF Len(v) = 0 \/ OutOfBounds(s.buf, v)
              THEN [s |-> [s EXCEPT !.st = mm.a], h |-> mm.h, r |-> Panic]
            ELSE IF up # <<>>
              THEN [s |-> [s EXCEPT !.st = mm.a],
                    h |-> RcSet(mm.h, mm.a,
                            ReverseFrom(Swap(v, up[1], up[2]), up[1] + 1)),
                    r |-> Ok(List(Materialize(s.buf, v)))]
            ELSE [s |-> [s EXCEPT !.st = 0], h |-> RcDrop(mm.h, mm.a),
                  r |-> Ok(List(Materialize(s.buf, v)))]

\* The sum of Permutations::len with the filter counting the later
\* elements that are smaller.
RECURSIVE PermLenSumCountsSmaller(_, _, _)
PermLenSumCountsSmaller(v, i, cur) ==
    IF i >= Len(v) THEN 0
    ELSE LET c == cur * i
         IN c * Cardinality({j \in (Len(v) - i)..(Len(v) - 1) :
                                At(v, j) < At(v, Len(v) - 1 - i)})
            + PermLenSumCountsSmaller(v, i + 1, c)

\* The sum of Permutations::len from i on, cur being the running product.
RECURSIVE PermLenSum(_, _, _)
PermLenSum(v, i, cur) ==
    IF i >= Len(v) THEN 0
    ELSE LET c == cur * i
         IN c * Cardinality({j \in (Len(v) - i)..(Len(v) - 1) :
                                At(v, j) > At(v, Len(v) - 1 - i)})
            + PermLenSum(v, i + 1, c)

PermutationsLen(s, h) ==
    IF s.st = 0 THEN 0 ELSE PermLenSum(h[s.st].val, 1, 1) + 1

\* for j in i + 1..v.len() { v[j] = v[j - 1] + 1; } after v[i] += 1
CombBump(v, i) ==
    [p \in 1..Len(v) |->
        IF p <= i THEN v[p] ELSE At(v, i) + 1 + (p - 1 - i)]

\* The loop of Combinations::next without `last -= 1`.
RECURSIVE CombScanFixedLast(_, _, _)
CombScanFixedLast(v, i, last) ==
    IF i < 0 THEN -1
    ELSE IF At(v, i) + 1 < last THEN i
    ELSE CombScanFixedLast(v, i - 1, last)

\* The loop of Combinations::next from index i down: the index to bump, or
\* -1 when the loop ends without one.
RECURSIVE CombScan(_, _, _)
CombScan(v, i, last) ==
    IF i < 0 THEN -1
    ELSE IF At(v, i) + 1 < last THEN i
    ELSE CombScan(v, i - 1, last - 1)

CombinationsNext(s, h) ==
    IF s.st = 0 THEN [s |-> s, h |-> h, r |-> None]
    ELSE LET mm == RcMakeMut(h, s.st)
             v == mm.h[mm.a].val
             s1 == [s EXCEPT !.st = mm.a]
             i == CombScan(v, Len(v) - 1, Len(s.buf))
         IN IF Len(v) > Len(s.buf) THEN [s |-> s1, h |-> mm.h, r |-> None]
            ELSE IF OutOfBounds(s.buf, v) THEN [s |-> s1, h |-> mm.h, r |-> Panic]
            ELSE IF i >= 0
              THEN [s |-> s1, h |-> RcSet(mm.h, mm.a, CombBump(v, i)),
                    r |-> Ok(List(Materialize(s.buf, v)))]
            ELSE [s |-> [s EXCEPT !.st = 0], h |-> RcDrop(mm.h, mm.a),
                  r |-> Ok(List(Materialize(s.buf, v)))]

\* Combinations does not override Stream::len.
CombinationsLen(s, h) == LenNone

\* v.iter().zip(self.0.iter()).filter_map(..): the elements under a true bit.
RECURSIVE Masked(_, _, _)
Masked(buf, v, i) ==
    IF i > Len(v) \/ i > Len(buf) THEN <<>>
    ELSE (IF v[i] THEN <<buf[i]>> ELSE <<>>) \o Masked(buf, v, i + 1)

\* The loop of Subsequences::next from index i down: the bit to set, or -1.
RECURSIVE SubseqScan(_, _)
SubseqScan(v, i) ==
    IF i < 0 THEN -1
    ELSE IF ~At(v, i) THEN i
    ELSE SubseqScan(v, i - 1)

\* Subsequences::next that leaves the bits right of the new one as they are.
SubsequencesNextNoClear(s, h) ==
    IF s.st = 0 THEN [s |-> s, h |-> h, r |-> None]
    ELSE LET mm == RcMakeMut(h, s.st)
             v == mm.h[mm.a].val
             i == SubseqScan(v, Len(v) - 1)
         IN IF i >= 0
              THEN [s |-> [s EXCEPT !.st = mm.a],
                    h |-> RcSet(mm.h, mm.a, [v EXCEPT ![i + 1] = TRUE]),
                    r |-> Ok(List(Masked(s.buf, v, 1)))]
            ELSE [s |-> [s EXCEPT !.st = 0], h |-> RcDrop(mm.h, mm.a),
                  r |-> Ok(List(Masked(s.buf, v, 1)))]

SubsequencesNext(s, h) ==
    IF s.st = 0 THEN [s |-> s, h |-> h, r |-> None]
    ELSE LET mm == RcMakeMut(h, s.st)
             v == mm.h[mm.a].val
             i == SubseqScan(v, Len(v) - 1)
         IN IF i >= 0
              THEN [s |-> [s EXCEPT !.st = mm.a],
                    h |-> RcSet(mm.h, mm.a,
                            [p \in 1..Len(v) |->
                                IF p <= i THEN v[p] ELSE p = i + 1]),
                    r |-> Ok(List(Masked(s.buf, v, 1)))]
            ELSE [s |-> [s EXCEPT !.st = 0], h |-> RcDrop(mm.h, mm.a),
                  r |-> Ok(List(Masked(s.buf, v, 1)))]

\* The sum of Subsequences::len from index i down, cur the running power.
RECURSIVE SubseqLenSum(_, _, _)
SubseqLenSum(v, i, cur) ==
    IF i < 0 THEN 0
    ELSE (IF ~At(v, i) THEN cur ELSE 0) + SubseqLenSum(v, i - 1, cur * 2)

SubsequencesLen(s, h) ==
    IF s.st = 0 THEN 0
    ELSE SubseqLenSum(h[s.st].val, Len(h[s.st].val) - 1, 1) + 1

\* The loop of CartesianPower::next from index i down: the vector after the
\* carries and whether the loop returned (no carry out).
RECURSIVE PowerScan(_, _, _)
PowerScan(v, i, m) ==
    IF i < 0 THEN [v |-> v, ret |-> FALSE]
    ELSE IF At(v, i) + 1 = m THEN PowerScan([v EXCEPT ![i + 1] = 0], i - 1, m)
    ELSE [v |-> [v EXCEPT ![i + 1] = At(v, i) + 1], ret |-> TRUE]

\* CartesianPower::next that materializes the index vector after the
\* advance.
CartesianPowerNextPostAdvance(s, h) ==
    IF s.st = 0 THEN [s |-> s, h |-> h, r |-> None]
    ELSE LET mm == RcMakeMut(h, s.st)
             v == mm.h[mm.a].val
             sc == PowerScan(v, Len(v) - 1, Len(s.buf))
         IN IF OutOfBounds(s.buf, v)
              THEN [s |-> [s EXCEPT !.st = mm.a], h |-> mm.h, r |-> Panic]
            ELSE IF sc.ret
              THEN [s |-> [s EXCEPT !.st = mm.a], h |-> RcSet(mm.h, mm.a, sc.v),
                    r |-> Ok(List(Materialize(s.buf, sc.v)))]
            ELSE [s |-> [s EXCEPT !.st = 0], h |-> RcDrop(mm.h, mm.a),
                  r |-> Ok(List(Materialize(s.buf, sc.v)))]

\* CartesianPower::next. Over an empty buffer self.0[*i] panics.
CartesianPowerNext(s, h) ==
    IF s.st = 0 THEN [s |-> s, h |-> h, r |-> None]
    ELSE LET mm == RcMakeMut(h, s.st)
             v == mm.h[mm.a].val
             sc == PowerScan(v, Len(v) - 1, Len(s.buf))
         IN IF OutOfBounds(s.buf, v)
              THEN [s |-> [s EXCEPT !.st = mm.a], h |-> mm.h, r |-> Panic]
            ELSE IF sc.ret
              THEN [s |-> [s EXCEPT !.st = mm.a], h |-> RcSet(mm.h, mm.a, sc.v),
                    r |-> Ok(List(Materialize(s.buf, v)))]
            ELSE [s |-> [s EXCEPT !.st = 0], h |-> RcDrop(mm.h, mm.a),
                  r |-> Ok(List(Materialize(s.buf, v)))]

\* What len() gives where its usize arithmetic underflows: a panic with
\* overflow checks, a wrapped number without them.
LenOverflow == -2

\* The sum of CartesianPower::len from index i down.
RECURSIVE PowerLenSum(_, _, _, _)
PowerLenSum(v, i, m, cur) ==
    IF i < 0 THEN 0
    ELSE (m - 1 - At(v, i)) * cur + PowerLenSum(v, i - 1, m, cur * m)

CartesianPowerLen(s, h) ==
    IF s.st = 0 THEN 0
    ELSE IF \E i \in 1..Len(h[s.st].val) : Len(s.buf) - 1 - h[s.st].val[i] < 0
      THEN LenOverflow
    ELSE PowerLenSum(h[s.st].val, Len(h[s.st].val) - 1, Len(s.buf), 1) + 1

EnumKinds == {"Permutations", "Combinations", "Subsequences", "CartesianPower"}

\* derive(Clone) of an enumerator: the buffer and the index state are
\* shared, the count of the index state's cell goes up.
EnumClone(s, h) ==
    IF s.st = 0 THEN [s |-> s, h |-> h] ELSE [s |-> s, h |-> RcClone(h, s.st)]

(* ------------------------------ callables ------------------------------ *)

\* A user callable: what it computes (op), and the fault it raises when its
\* last argument is the number `at` ("none": it never faults; "NonList": it
\* returns the number itself there, where a list is expected).
Func(op, fault, at) == [op |-> op, fault |-> fault, at |-> at]

NoFunc == Func("dropped", "none", 0)

\* The successors x-1, x-2 of x that are not negative.
FanOut(x) ==
    IF x >= 2 THEN <<x - 1, x - 2>> ELSE IF x = 1 THEN <<0>> ELSE <<>>

\* func.run(&renv, args): an NRes<Obj>.
Run(f, args) ==
    LET x == args[Len(args)]
    IN IF x.t # "Num"
         THEN (IF f.op = "len" /\ x.t = "List" THEN Ok(Num(Len(x.l)))
               ELSE Err(Throw))
       ELSE IF f.fault # "none" /\ x.n = f.at
         THEN (IF f.fault = "NonList" THEN Ok(Num(x.n)) ELSE Err(f.fault))
       ELSE CASE f.op = "succ" -> Ok(Num(x.n + 1))
              [] f.op = "square" -> Ok(Num(x.n * x.n))
              [] f.op = "add" -> Ok(Num(args[1].n + x.n))
              [] f.op = "pred" -> Ok(List(IF x.n > 0 THEN <<x.n - 1>> ELSE <<>>))
              [] f.op = "fan" -> Ok(List(FanOut(x.n)))
              [] OTHER -> Err(Throw)

(* ----------------------- functional combinators ------------------------ *)

RECURSIVE StreamNext(_, _)
RECURSIVE StreamClone(_, _)
RECURSIVE DropStream(_, _)

\* An active MappedStream, StridedStream or ScannedStream; the fields a
\* kind does not have keep their defaults.
Combinator(kind, inner, f, stride, init) ==
    [kind |-> kind, res |-> "Ok", err |-> "", inner |-> inner, func |-> f,
     stride |-> stride, pos |-> 0, init |-> init, acc |-> <<>>]

\* self.0 = Err(e): the combinator keeps the fault alone.
Poisoned(s, e) ==
    [s EXCEPT !.res = "Err", !.err = e, !.inner = NoStream, !.func = NoFunc,
              !.stride = 0, !.pos = 0, !.init = Null]

\* Iterate::next that returns the fault of f as the result of the pull
\* that invoked f.
IterateNextFaultAtOnce(s) ==
    IF s.res = "Ok"
      THEN LET r == Run(s.func, <<s.obj>>)
           IN IF r.tag = "Ok"
                THEN [s |-> [s EXCEPT !.obj = r.v], r |-> Ok(s.obj), calls |-> 1]
              ELSE [s |-> [s EXCEPT !.res = "Err", !.err = r.e, !.obj = Null,
                                    !.func = NoFunc],
                    r |-> IF r.e = Break THEN None ELSE Err(r.e), calls |-> 1]
    ELSE IF s.err = Break THEN [s |-> s, r |-> None]
    ELSE [s |-> s, r |-> Err(s.err)]

\* Iterate::next that hands the stored fault out of self.0 and leaves the
\* stream active behind it.
IterateNextForgetsFault(s) ==
    IF s.res = "Ok"
      THEN LET r == Run(s.func, <<s.obj>>)
           IN IF r.tag = "Ok"
                THEN [s |-> [s EXCEPT !.obj = r.v], r |-> Ok(s.obj), calls |-> 1]
              ELSE [s |-> [s EXCEPT !.res = "Err", !.err = r.e, !.obj = Null,
                                    !.func = NoFunc],
                    r |-> Ok(s.obj), calls |-> 1]
    ELSE IF s.err = Break THEN [s |-> s, r |-> None]
    ELSE [s |-> [s EXCEPT !.res = "Ok", !.err = ""], r |-> Err(s.err)]

\* Iterate::next that treats a stored fault as MappedStream does: the
\* pull returns no item.
IterateNextSwallowsFault(s) ==
    IF s.res = "Ok"
      THEN LET r == Run(s.func, <<s.obj>>)
           IN IF r.tag = "Ok"
                THEN [s |-> [s EXCEPT !.obj = r.v], r |-> Ok(s.obj), calls |-> 1]
              ELSE [s |-> [s EXCEPT !.res = "Err", !.err = r.e, !.obj = Null,
                                    !.func = NoFunc],
                    r |-> Ok(s.obj), calls |-> 1]
    ELSE [s |-> s, r |-> None]

IterateNext(s) ==
    IF s.res = "Ok"
      THEN LET r == Run(s.func, <<s.obj>>)
           IN IF r.tag = "Ok"
                THEN [s |-> [s EXCEPT !.obj = r.v], r |-> Ok(s.obj), calls |-> 1]
              ELSE [s |-> [s EXCEPT !.res = "Err", !.err = r.e, !.obj = Null,
                                    !.func = NoFunc],
                    r |-> Ok(s.obj), calls |-> 1]
    ELSE IF s.err = Break THEN [s |-> s, r |-> None]
    ELSE [s |-> s, r |-> Err(s.err)]

IterateLen(s) == LenNone

\* MappedStream::next that runs f and hands on the inner item itself.
MappedStreamNextUnmapped(s, h) ==
    IF s.res # "Ok" THEN [s |-> s, h |-> h, r |-> None]
    ELSE LET n == StreamNext(s.inner, h)
         IN CASE n.r.tag = "Err" ->
                   [s |-> Poisoned(s, n.r.e), h |-> DropStream(n.s, n.h),
                    r |-> Err(n.r.e), pulls |-> 1]
              [] n.r.tag = "Ok" ->
                   LET r == Run(s.func, <<n.r.v>>)
                   IN IF r.tag = "Ok"
                        THEN [s |-> [s EXCEPT !.inner = n.s], h |-> n.h,
                              r |-> Ok(n.r.v), pulls |-> 1, calls |-> 1]
                      ELSE [s |-> Poisoned(s, r.e), h |-> DropStream(n.s, n.h),
                            r |-> Err(r.e), pulls |-> 1, calls |-> 1]
              [] n.r.tag = "None" ->
                   [s |-> Poisoned(s, Break), h |-> DropStream(n.s, n.h),
                    r |-> None, pulls |-> 1]
              [] OTHER -> [s |-> [s EXCEPT !.inner = n.s], h |-> n.h, r |-> Panic,
                           pulls |-> 1]

MappedStreamNext(s, h) ==
    IF s.res # "Ok" THEN [s |-> s, h |-> h, r |-> None]
    ELSE LET n == StreamNext(s.inner, h)
         IN CASE n.r.tag = "Err" ->
                   [s |-> Poisoned(s, n.r.e), h |-> DropStream(n.s, n.h),
                    r |-> Err(n.r.e), pulls |-> 1]
              [] n.r.tag = "Ok" ->
                   LET r == Run(s.func, <<n.r.v>>)
                   IN IF r.tag = "Ok"
                        THEN [s |-> [s EXCEPT !.inner = n.s], h |-> n.h,
                              r |-> Ok(r.v), pulls |-> 1, calls |-> 1]
                      ELSE [s |-> Poisoned(s, r.e), h |-> DropStream(n.s, n.h),
                            r |-> Err(r.e), pulls |-> 1, calls |-> 1]
              [] n.r.tag = "None" ->
                   [s |-> Poisoned(s, Break), h |-> DropStream(n.s, n.h),
                    r |-> None, pulls |-> 1]
              [] OTHER -> [s |-> [s EXCEPT !.inner = n.s], h |-> n.h, r |-> Panic,
                           pulls |-> 1]

\* MappedStream does not override Stream::len.
MappedStreamLen(s) == LenNone

\* The loop of StridedStream::next without `*size += 1` for a kept item.
RECURSIVE StridedLoopKeptNotCounted(_, _, _)
StridedLoopKeptNotCounted(s, inner, h) ==
    LET n == StreamNext(inner, h)
    IN CASE n.r.tag = "Err" ->
              [s |-> Poisoned(s, n.r.e), h |-> DropStream(n.s, n.h),
               r |-> Err(n.r.e), pulls |-> 1]
         [] n.r.tag = "Ok" ->
              IF s.stride = 0
                THEN [s |-> [s EXCEPT !.inner = n.s], h |-> n.h, r |-> Panic,
                      pulls |-> 1]
              ELSE IF s.pos % s.stride = 0
                THEN [s |-> [s EXCEPT !.inner = n.s],
                      h |-> n.h, r |-> Ok(n.r.v), pulls |-> 1]
              ELSE LET l == StridedLoopKeptNotCounted(
                                [s EXCEPT !.pos = s.pos + 1], n.s, n.h)
                   IN [l EXCEPT !.pulls = @ + 1]
         [] n.r.tag = "None" ->
              [s |-> Poisoned(s, Break), h |-> DropStream(n.s, n.h), r |-> None,
               pulls |-> 1]
         [] OTHER -> [s |-> [s EXCEPT !.inner = n.s], h |-> n.h, r |-> Panic,
                      pulls |-> 1]

\* The loop of StridedStream::next: inner is pulled until a kept position,
\* its end or a fault; size % stride panics for a stride of 0.
RECURSIVE StridedLoop(_, _, _)
StridedLoop(s, inner, h) ==
    LET n == StreamNext(inner, h)
    IN CASE n.r.tag = "Err" ->
              [s |-> Poisoned(s, n.r.e), h |-> DropStream(n.s, n.h),
               r |-> Err(n.r.e), pulls |-> 1]
         [] n.r.tag = "Ok" ->
              IF s.stride = 0
                THEN [s |-> [s EXCEPT !.inner = n.s], h |-> n.h, r |-> Panic,
                      pulls |-> 1]
              ELSE IF s.pos % s.stride = 0
                THEN [s |-> [s EXCEPT !.inner = n.s, !.pos = s.pos + 1],
                      h |-> n.h, r |-> Ok(n.r.v), pulls |-> 1]
              ELSE LET l == StridedLoop([s EXCEPT !.pos = s.pos + 1], n.s, n.h)
                   IN [l EXCEPT !.pulls = @ + 1]
         [] n.r.tag = "None" ->
              [s |-> Poisoned(s, Break), h |-> DropStream(n.s, n.h), r |-> None,
               pulls |-> 1]
         [] OTHER -> [s |-> [s EXCEPT !.inner = n.s], h |-> n.h, r |-> Panic,
                      pulls |-> 1]

\* StridedStream::next that, having found the item to keep, pulls the
\* item after it as well and drops it.
StridedStreamNextAhead(s, h) ==
    IF s.res # "Ok" THEN [s |-> s, h |-> h, r |-> None]
    ELSE LET l == StridedLoop(s, s.inner, h)
         IN IF l.r.tag = "Ok" /\ s.stride > 1
              THEN LET n == StreamNext(l.s.inner, l.h)
                   IN [s |-> [l.s EXCEPT !.inner = n.s, !.pos = @ + 1],
                       h |-> n.h, r |-> l.r, pulls |-> l.pulls + 1]
            ELSE l

StridedStreamNext(s, h) ==
    IF s.res # "Ok" THEN [s |-> s, h |-> h, r |-> None]
    ELSE StridedLoop(s, s.inner, h)

\* StridedStream does not override Stream::len.
StridedStreamLen(s) == LenNone

\* ScannedStream::next that folds every inner item into init.
ScannedStreamNextFoldsInit(s, h) ==
    IF s.res # "Ok" THEN [s |-> s, h |-> h, r |-> None]
    ELSE IF s.acc = <<>>
      THEN [s |-> [s EXCEPT !.acc = <<s.init>>], h |-> h, r |-> Ok(s.init)]
    ELSE LET n == StreamNext(s.inner, h)
             t == [s EXCEPT !.acc = <<>>]
         IN CASE n.r.tag = "Err" ->
                   [s |-> Poisoned(t, n.r.e), h |-> DropStream(n.s, n.h),
                    r |-> Err(n.r.e), pulls |-> 1]
              [] n.r.tag = "Ok" ->
                   LET r == Run(s.func, <<s.init, n.r.v>>)
                   IN IF r.tag = "Ok"
                        THEN [s |-> [s EXCEPT !.inner = n.s, !.acc = <<r.v>>],
                              h |-> n.h, r |-> Ok(r.v), pulls |-> 1, calls |-> 1]
                      ELSE [s |-> Poisoned(t, r.e), h |-> DropStream(n.s, n.h),
                            r |-> Err(r.e), pulls |-> 1, calls |-> 1]
              [] n.r.tag = "None" ->
                   [s |-> Poisoned(t, Break), h |-> DropStream(n.s, n.h),
                    r |-> None, pulls |-> 1]
              [] OTHER -> [s |-> [t EXCEPT !.inner = n.s], h |-> n.h, r |-> Panic,
                           pulls |-> 1]

\* ScannedStream::next; acc is self.1, <<>> for None.
ScannedStreamNext(s, h) ==
    IF s.res # "Ok" THEN [s |-> s, h |-> h, r |-> None]
    ELSE IF s.acc = <<>>
      THEN [s |-> [s EXCEPT !.acc = <<s.init>>], h |-> h, r |-> Ok(s.init)]
    ELSE LET n == StreamNext(s.inner, h)
             t == [s EXCEPT !.acc = <<>>]
         IN CASE n.r.tag = "Err" ->
                   [s |-> Poisoned(t, n.r.e), h |-> DropStream(n.s, n.h),
                    r |-> Err(n.r.e), pulls |-> 1]
              [] n.r.tag = "Ok" ->
                   LET r == Run(s.func, <<s.acc[1], n.r.v>>)
                   IN IF r.tag = "Ok"
                        THEN [s |-> [s EXCEPT !.inner = n.s, !.acc = <<r.v>>],
                              h |-> n.h, r |-> Ok(r.v), pulls |-> 1, calls |-> 1]
                      ELSE [s |-> Poisoned(t, r.e), h |-> DropStream(n.s, n.h),
                            r |-> Err(r.e), pulls |-> 1, calls |-> 1]
              [] n.r.tag = "None" ->
                   [s |-> Poisoned(t, Break), h |-> DropStream(n.s, n.h),
                    r |-> None, pulls |-> 1]
              [] OTHER -> [s |-> [t EXCEPT !.inner = n.s], h |-> n.h, r |-> Panic,
                           pulls |-> 1]

\* ScannedStream does not override Stream::len.
ScannedStreamLen(s) == LenNone

\* Clone of MappedStream, StridedStream and ScannedStream: a poisoned one
\* clones its fault (ScannedStream with self.1 = None), an active one
\* clones its inner stream through clone_box.
CombinatorClone(s, h) ==
    IF s.res # "Ok"
      THEN [s |-> IF s.kind = "ScannedStream" THEN [s EXCEPT !.acc = <<>>] ELSE s,
            h |-> h]
    ELSE LET c == StreamClone(s.inner, h)
         IN [s |-> [s EXCEPT !.inner = c.s], h |-> c.h]

CombinatorKinds == {"MappedStream", "StridedStream", "ScannedStream"}

(* ------------------------------ HeapStream ----------------------------- *)

\* The order of TotalOrderWrapper on numbers.
ObjGreater(a, b) == a > b

\* BinaryHeap::push: the queue is kept as the sequence of its elements,
\* the greatest first.
RECURSIVE HeapPush(_, _)
HeapPush(q, x) ==
    IF q = <<>> THEN <<x>>
    ELSE IF ObjGreater(q[1], x) THEN <<q[1]>> \o HeapPush(Tail(q), x)
    ELSE <<x>> \o q

\* heap.extend(v.iter()...)
RECURSIVE HeapExtend(_, _)
HeapExtend(q, l) ==
    IF l = <<>> THEN q ELSE HeapExtend(HeapPush(q, l[1]), Tail(l))

\* HeapStream::new
HeapStreamNew(o, f) ==
    [kind |-> "HeapStream", res |-> "Ok", q |-> HeapPush(<<>>, o), func |-> f]

\* HeapStream::next that poisons the stream on a callable's value that is
\* no list.
HeapStreamNextPoisons(s) ==
    IF s.res # "Ok" \/ s.q = <<>> THEN [s |-> s, r |-> None]
    ELSE LET ret == Run(s.func, <<Num(s.q[1])>>)
             t == [s EXCEPT !.q = Tail(s.q)]
         IN IF ret.tag # "Ok" THEN [s |-> t, r |-> None, calls |-> 1]
            ELSE IF ret.v.t = "List"
              THEN [s |-> [t EXCEPT !.q = HeapExtend(t.q, ret.v.l)],
                    r |-> Ok(ret.v), calls |-> 1]
            ELSE [s |-> [t EXCEPT !.res = "Err"], r |-> Err(TypeError),
                  calls |-> 1]

HeapStreamNext(s) ==
    IF s.res # "Ok" \/ s.q = <<>> THEN [s |-> s, r |-> None]
    ELSE LET ret == Run(s.func, <<Num(s.q[1])>>)
             t == [s EXCEPT !.q = Tail(s.q)]
         IN IF ret.tag # "Ok" THEN [s |-> t, r |-> None, calls |-> 1]
            ELSE IF ret.v.t = "List"
              THEN [s |-> [t EXCEPT !.q = HeapExtend(t.q, ret.v.l)],
                    r |-> Ok(ret.v), calls |-> 1]
            ELSE [s |-> t, r |-> Err(TypeError), calls |-> 1]

\* HeapStream does not override Stream::len.
HeapStreamLen(s) == LenNone

(* ---------------------------- dyn Stream -------------------------------- *)

\* Dropping a stream releases the index vectors it holds.
DropStream(s, h) ==
    CASE s.kind \in EnumKinds -> IF s.st = 0 THEN h ELSE RcDrop(h, s.st)
      [] s.kind \in CombinatorKinds ->
           IF s.res = "Ok" THEN DropStream(s.inner, h) ELSE h
      [] OTHER -> h

\* Iterator::next through Box<dyn Stream>. With the result come the number
\* of times this pull ran the stream's own callable (calls) and the number
\* of times it pulled the stream's own inner stream (pulls), 0 where the
\* code has no such call on the path taken.
StreamNext(s, h) ==
    (CASE s.kind = "Repeat" -> [h |-> h] @@ RepeatNext(s)
      [] s.kind = "Cycle" -> [h |-> h] @@ CycleNext(s)
      [] s.kind = "Range" -> [h |-> h] @@ RangeNext(s)
      [] s.kind = "Permutations" -> PermutationsNext(s, h)
      [] s.kind = "Combinations" -> CombinationsNext(s, h)
      [] s.kind = "Subsequences" -> SubsequencesNext(s, h)
      [] s.kind = "CartesianPower" -> CartesianPowerNext(s, h)
      [] s.kind = "Iterate" -> [h |-> h] @@ IterateNext(s)
      [] s.kind = "MappedStream" -> MappedStreamNext(s, h)
      [] s.kind = "StridedStream" -> StridedStreamNext(s, h)
      [] s.kind = "ScannedStream" -> ScannedStreamNext(s, h)
      [] s.kind = "HeapStream" -> [h |-> h] @@ HeapStreamNext(s))
    @@ [calls |-> 0, pulls |-> 0]

\* Stream::len
StreamLen(s, h) ==
    CASE s.kind = "Repeat" -> RepeatLen(s)
      [] s.kind = "Cycle" -> CycleLen(s)
      [] s.kind = "Range" -> RangeLen(s)
      [] s.kind = "Permutations" -> PermutationsLen(s, h)
      [] s.kind = "Combinations" -> CombinationsLen(s, h)
      [] s.kind = "Subsequences" -> SubsequencesLen(s, h)
      [] s.kind = "CartesianPower" -> CartesianPowerLen(s, h)
      [] s.kind = "Iterate" -> IterateLen(s)
      [] s.kind = "MappedStream" -> MappedStreamLen(s)
      [] s.kind = "StridedStream" -> StridedStreamLen(s)
      [] s.kind = "ScannedStream" -> ScannedStreamLen(s)
      [] s.kind = "HeapStream" -> HeapStreamLen(s)

\* Stream::clone_box
StreamClone(s, h) ==
    CASE s.kind \in {"Repeat", "Cycle", "Range", "Iterate", "HeapStream"} ->
           [s |-> s, h |-> h]
      [] s.kind \in EnumKinds -> EnumClone(s, h)
      [] s.kind \in CombinatorKinds -> CombinatorClone(s, h)

\* The results of the next k pulls of s, a panic ending them.
RECURSIVE Drain(_, _, _)
Drain(s, h, k) ==
    IF k = 0 THEN <<>>
    ELSE LET n == StreamNext(s, h)
         IN IF n.r.tag = "Panic" THEN <<n.r>>
            ELSE <<n.r>> \o Drain(n.s, n.h, k - 1)

(* ----------------------------- the streams ----------------------------- *)

RepeatInits == {[kind |-> "Repeat", v |-> Num(n)] : n \in {7}}

CycleInits ==
    UNION {{[kind |-> "Cycle", buf |-> Buf(n), cur |-> c] : c \in 0..(n - 1)} :
              n \in 1..MaxBuf}

RangeInits ==
    {[kind |-> "Range", start |-> a, hasEnd |-> TRUE, end |-> b, step |-> d] :
        a \in -MaxRange..MaxRange, b \in -MaxRange..MaxRange,
        d \in -MaxStep..MaxStep}
    \cup
    {[kind |-> "Range", start |-> a, hasEnd |-> FALSE, end |-> 0, step |-> d] :
        a \in -MaxRange..MaxRange, d \in -MaxStep..MaxStep}

\* An enumerator over Buf(n) with its index state v in the store's cell 1.
Enum(kind, n) == [kind |-> kind, buf |-> Buf(n), st |-> 1]

Cell(v) == <<[rc |-> 1, val |-> v]>>

Pulls == Len(out["orig"]) + Len(out["fork"])

\* The state after construction of stream s with store h.
Start(s, h) ==
    /\ strm = [hd \in Handles |-> IF hd = "orig" THEN s ELSE NoStream]
    /\ out = [hd \in Handles |-> <<>>]
    /\ heap = h
    /\ ctor = s
    /\ ctorHeap = h
    /\ forkAt = 0
    /\ forkMode = "none"
    /\ crashed = FALSE
    /\ nrev = 0
    /\ idx = <<>>

InitRepeat == \E s \in RepeatInits : Start(s, <<>>)
InitCycle == \E s \in CycleInits : Start(s, <<>>)
InitRange == \E s \in RangeInits : Start(s, <<>>)

\* Permutations start at the identity index vector.
InitPermutations ==
    \E n \in 0..MaxBuf : Start(Enum("Permutations", n), Cell(Iota(n)))

\* Combinations of k out of n start at 0, 1, ..., k-1.
InitCombinations ==
    \E n \in 0..MaxBuf, k \in 0..(MaxVec + 1) :
        Start(Enum("Combinations", n), Cell(Iota(k)))

\* Subsequences start at the all-false mask.
InitSubsequences ==
    \E n \in 0..MaxBuf :
        Start(Enum("Subsequences", n), Cell([i \in 1..n |-> FALSE]))

\* CartesianPower starts at the all-zero vector.
InitCartesianPower ==
    \E m \in 0..MaxBuf, n \in 0..MaxVec :
        Start(Enum("CartesianPower", m), Cell([i \in 1..n |-> 0]))

\* The callables that fault at some number, or never.
Faulty(op, faults) ==
    {Func(op, "none", 0)} \cup
    {Func(op, fl, a) : fl \in faults, a \in 0..MaxFault}

IterateInits ==
    {[kind |-> "Iterate", res |-> "Ok", err |-> "", obj |-> Num(0), func |-> f] :
        f \in Faulty("succ", {Break, Throw})}

InitIterate == \E s \in IterateInits : Start(s, <<>>)

UpTo(e) == [kind |-> "Range", start |-> 0, hasEnd |-> TRUE, end |-> e, step |-> 1]

\* The inner streams, each with the store it needs: the ranges 0 til e, a
\* MappedStream whose callable faults at its second item, and a
\* MappedStream over the permutations of two elements.
InnerInits ==
    {[s |-> UpTo(e), h |-> <<>>] : e \in 0..MaxInner} \cup
    {[s |-> Combinator("MappedStream", UpTo(MaxInner), Func("succ", fl, 1), 0, Null),
      h |-> <<>>] : fl \in {Break, Throw}} \cup
    {[s |-> Combinator("MappedStream", Enum("Permutations", 2),
                       Func("len", "none", 0), 0, Null),
      h |-> Cell(Iota(2))]}

InitMappedStream ==
    \E i \in InnerInits :
        \E f \in {Func("square", "none", 0)} \cup Faulty("succ", {Break, Throw}) :
            Start(Combinator("MappedStream", i.s, f, 0, Null), i.h)

InitStridedStream ==
    \E i \in InnerInits, stride \in 0..MaxStride :
        Start(Combinator("StridedStream", i.s, NoFunc, stride, Null), i.h)

InitScannedStream ==
    \E i \in InnerInits, f \in Faulty("add", {Break, Throw}) :
        Start(Combinator("ScannedStream", i.s, f, 0, Num(0)), i.h)

InitHeapStream ==
    \E seed \in 0..MaxSeed :
        \E f \in Faulty("fan", {"NonList"})
                  \cup Faulty("pred", {Throw, "NonList"}) :
            Start(HeapStreamNew(seed, f), <<>>)

\* One pull through handle hd; the history keeps the pulled result, len()
\* as it was before the pull, and the pull's callable runs and inner pulls. idx, the last indexed access, is
\* forgotten.
Pull(hd) ==
    /\ ~crashed
    /\ strm[hd].kind # "NoStream"
    /\ Pulls < MaxPulls
    /\ LET n == StreamNext(strm[hd], heap)
       IN /\ strm' = [strm EXCEPT ![hd] = n.s]
          /\ heap' = n.h
          /\ out' = [out EXCEPT ![hd] =
                        Append(@, [r |-> n.r, len |-> StreamLen(strm[hd], heap),
                                   calls |-> n.calls, pulls |-> n.pulls])]
          /\ crashed' = (n.r.tag = "Panic")
    /\ idx' = <<>>
    /\ UNCHANGED <<ctor, ctorHeap, forkAt, forkMode, nrev>>

RepeatPull(hd) ==
    /\ strm[hd].kind = "Repeat"
    /\ Pull(hd)

CyclePull(hd) ==
    /\ strm[hd].kind = "Cycle"
    /\ Pull(hd)

RangePull(hd) ==
    /\ strm[hd].kind = "Range"
    /\ Pull(hd)

PermutationsPull(hd) ==
    /\ strm[hd].kind = "Permutations"
    /\ Pull(hd)

CombinationsPull(hd) ==
    /\ strm[hd].kind = "Combinations"
    /\ Pull(hd)

SubsequencesPull(hd) ==
    /\ strm[hd].kind = "Subsequences"
    /\ Pull(hd)

CartesianPowerPull(hd) ==
    /\ strm[hd].kind = "CartesianPower"
    /\ Pull(hd)

IteratePull(hd) ==
    /\ strm[hd].kind = "Iterate"
    /\ Pull(hd)

MappedStreamPull(hd) ==
    /\ strm[hd].kind = "MappedStream"
    /\ Pull(hd)

StridedStreamPull(hd) ==
    /\ strm[hd].kind = "StridedStream"
    /\ Pull(hd)

ScannedStreamPull(hd) ==
    /\ strm[hd].kind = "ScannedStream"
    /\ Pull(hd)

HeapStreamPull(hd) ==
    /\ strm[hd].kind = "HeapStream"
    /\ Pull(hd)

\* clone_box of the original into the second handle.
CloneBox ==
    /\ ~crashed
    /\ strm["fork"].kind = "NoStream"
    /\ LET c == StreamClone(strm["orig"], heap)
       IN /\ strm' = [strm EXCEPT !["fork"] = c.s]
          /\ heap' = c.h
    /\ forkAt' = Len(out["orig"])
    /\ forkMode' = "clone"
    /\ idx' = <<>>
    /\ UNCHANGED <<out, ctor, ctorHeap, crashed, nrev>>

\* reversed() of the original Cycle into the second handle.
CycleReversedFork ==
    /\ ~crashed
    /\ strm["orig"].kind = "Cycle"
    /\ strm["fork"].kind = "NoStream"
    /\ strm' = [strm EXCEPT !["fork"] = CycleReversed(strm["orig"])]
    /\ forkAt' = Len(out["orig"])
    /\ forkMode' = "reversed"
    /\ idx' = <<>>
    /\ UNCHANGED <<out, heap, ctor, ctorHeap, crashed, nrev>>

\* The consumer replaces its Cycle by the reversed one, a new stream with
\* no pulls yet.
CycleReversedInPlace ==
    /\ ~crashed
    /\ strm["orig"].kind = "Cycle"
    /\ strm["fork"].kind = "NoStream"
    /\ nrev < MaxRev
    /\ strm' = [strm EXCEPT !["orig"] = CycleReversed(strm["orig"])]
    /\ out' = [out EXCEPT !["orig"] = <<>>]
    /\ nrev' = nrev + 1
    /\ idx' = <<>>
    /\ ctor' = strm'["orig"]
    /\ UNCHANGED <<heap, ctorHeap, forkAt, forkMode, crashed>>

\* pythonic_index_isize(i) on the original Cycle; idx keeps the offset and
\* the answer until the next pull.
CycleIndex ==
    /\ ~crashed
    /\ strm["orig"].kind = "Cycle"
    /\ \E i \in -MaxIndex..MaxIndex :
          idx' = <<[i |-> i, r |-> CyclePythonicIndex(strm["orig"], i)]>>
    /\ UNCHANGED <<strm, out, heap, ctor, ctorHeap, forkAt, forkMode, crashed, nrev>>

(* --------------------------- specifications ---------------------------- *)

NextCycle ==
    \/ \E hd \in Handles : CyclePull(hd)
    \/ CycleReversedFork
    \/ CycleReversedInPlace
    \/ CycleIndex

SpecCycle == InitCycle /\ [][NextCycle]_vars

NextRange == RangePull("orig")

SpecRange == InitRange /\ [][NextRange]_vars

InitEnum ==
    InitPermutations \/ InitCombinations \/ InitSubsequences \/ InitCartesianPower

NextEnum ==
    \/ PermutationsPull("orig")
    \/ CombinationsPull("orig")
    \/ SubsequencesPull("orig")
    \/ CartesianPowerPull("orig")

SpecEnum == InitEnum /\ [][NextEnum]_vars

InitComb ==
    InitIterate \/ InitMappedStream \/ InitStridedStream \/ InitScannedStream

NextComb ==
    \/ IteratePull("orig")
    \/ MappedStreamPull("orig")
    \/ StridedStreamPull("orig")
    \/ ScannedStreamPull("orig")

SpecComb == InitComb /\ [][NextComb]_vars

NextHeap == HeapStreamPull("orig")

SpecHeap == InitHeapStream /\ [][NextHeap]_vars

Init ==
    \/ InitRepeat
    \/ InitCycle
    \/ InitRange
    \/ InitEnum
    \/ InitComb
    \/ InitHeapStream

Next ==
    \/ \E hd \in Handles : RepeatPull(hd)
    \/ \E hd \in Handles : CyclePull(hd)
    \/ \E hd \in Handles : RangePull(hd)
    \/ \E hd \in Handles : PermutationsPull(hd)
    \/ \E hd \in Handles : CombinationsPull(hd)
    \/ \E hd \in Handles : SubsequencesPull(hd)
    \/ \E hd \in Handles : CartesianPowerPull(hd)
    \/ \E hd \in Handles : IteratePull(hd)
    \/ \E hd \in Handles : MappedStreamPull(hd)
    \/ \E hd \in Handles : StridedStreamPull(hd)
    \/ \E hd \in Handles : ScannedStreamPull(hd)
    \/ \E hd \in Handles : HeapStreamPull(hd)
    \/ CloneBox

Spec == Init /\ [][Next]_vars

(* ------------------------------- claims -------------------------------- *)

\* The results pulled through handle hd, in order.
Results(hd) == [i \in 1..Len(out[hd]) |-> out[hd][i].r]

\* How many of the pulls i.. of handle hd returned an item.
ItemsFrom(hd, i) ==
    Cardinality({j \in i..Len(out[hd]) : out[hd][j].r.tag = "Ok"})

\* The last pull through hd returned no item.
Ended(hd) == Len(out[hd]) > 0 /\ out[hd][Len(out[hd])].r.tag = "None"

\* C1: for a Range with an end and a non-zero step, positive or negative,
\* len() before any pull, and len() after any number of pulls, equals the
\* number of items the range still yields until it returns no item.
C1_RangeLenCountsPulls ==
    (/\ strm["orig"].kind = "Range"
     /\ strm["orig"].hasEnd
     /\ strm["orig"].step # 0
     /\ Ended("orig"))
    => \A i \in 1..Len(out["orig"]) : out["orig"][i].len = ItemsFrom("orig", i)

\* C2 as claimed: an Iterate whose callable succeeds k-1 times and signals
\* graceful termination on its k-th invocation yields exactly k-1 items and
\* then ends (two items when the third call terminates); x -> x+1 from
\* seed 0 pulled 5 times yields 0,1,2,3,4. From seed 0 the k-th invocation
\* of x -> x+1 is the one on k-1, the number `at` the callable faults at.
C2_IterateStopsBeforeKthCall ==
    strm["orig"].kind = "Iterate" =>
        /\ (ctor.func.fault = Break /\ Ended("orig")) =>
              ItemsFrom("orig", 1) = ctor.func.at
        /\ ctor.func.fault = "none" =>
              \A i \in 1..Len(out["orig"]) : out["orig"][i].r = Ok(Num(i - 1))

\* C2 as amended: the pull that makes the k-th, terminating invocation
\* still returns its item, so exactly k items are yielded, the seed and the
\* k-1 values f returned, and every pull after the k-th yields none (three
\* items when the third call terminates); x -> x+1 from seed 0 yields
\* 0,1,2,3,4,...
C2_IterateYieldsKItems ==
    strm["orig"].kind = "Iterate" =>
        /\ ctor.func.fault = Break =>
              \A i \in 1..Len(out["orig"]) :
                  out["orig"][i].r =
                      IF i <= ctor.func.at + 1 THEN Ok(Num(i - 1)) ELSE None
        /\ ctor.func.fault = "none" =>
              \A i \in 1..Len(out["orig"]) : out["orig"][i].r = Ok(Num(i - 1))

\* Iterate(0, f) with f terminating on its third call (on 2), pulled past
\* its end: three items.
C2_Witness ==
    /\ strm["orig"].kind = "Iterate"
    /\ ctor.func = Func("succ", Break, 2)
    /\ strm["orig"].res = "Err"
    /\ Results("orig") = <<Ok(Num(0)), Ok(Num(1)), Ok(Num(2)), None>>

\* C3: every successful pull of HeapStream returns the value popped from
\* the queue, not what the callable returned; seeded with 5 and
\* x -> [x-1] if x > 0 else [], the pulls yield 5,4,3,2,1,0 and then none.
C3_HeapYieldsPopped ==
    [][(strm["orig"].kind = "HeapStream" /\ out'["orig"] # out["orig"]) =>
          LET n == Len(out["orig"])
              r == out'["orig"][n + 1].r
          IN /\ r.tag = "Ok" => r.v = Num(strm["orig"].q[1])
             /\ ctor = HeapStreamNew(5, Func("pred", "none", 0)) =>
                   r = IF n < 6 THEN Ok(Num(5 - n)) ELSE None]_vars

\* The state of stream s with every index vector it holds read out of the
\* store (<<>> for None).
RECURSIVE Deref(_, _)
Deref(s, h) ==
    CASE s.kind \in EnumKinds ->
           [kind |-> s.kind, buf |-> s.buf,
            st |-> IF s.st = 0 THEN <<>> ELSE <<h[s.st].val>>]
      [] s.kind \in CombinatorKinds /\ s.res = "Ok" ->
           [s EXCEPT !.inner = Deref(s.inner, h)]
      [] OTHER -> s

\* What a consumer can tell about stream s: its state, its len() and the
\* results of its next MaxLook pulls.
View(s, h) ==
    [state |-> Deref(s, h), len |-> StreamLen(s, h), next |-> Drain(s, h, MaxLook)]

Other(hd) == IF hd = "orig" THEN "fork" ELSE "orig"

NoPanic(hd) == \A i \in 1..Len(out[hd]) : out[hd][i].r.tag # "Panic"

\* The pulls of hd are items up to the first pull that returned none.
ItemsThenNone(hd) ==
    \A i \in 1..Len(out[hd]) :
        /\ out[hd][i].r.tag \in {"Ok", "None"}
        /\ (i > 1 /\ out[hd][i - 1].r.tag = "None") => out[hd][i].r.tag = "None"

RECURSIVE Fact(_)
Fact(n) == IF n <= 0 THEN 1 ELSE n * Fact(n - 1)

RECURSIVE Pow(_, _)
Pow(b, e) == IF e <= 0 THEN 1 ELSE b * Pow(b, e - 1)

\* a comes before b in the lexicographic order (a and b of one length).
LexLess(a, b) ==
    \E i \in 1..Len(a) :
        /\ a[i] < b[i]
        /\ \A j \in 1..(i - 1) : a[j] = b[j]

\* C5: Permutations over any finite buffer B, the empty and the
\* one-element buffer included, started at the identity and pulled to
\* exhaustion, never crashes and yields |B|! items, each a permutation of
\* B, in strictly increasing lexicographic order of the index vectors,
\* and is terminal afterwards.
C5_PermutationsComplete ==
    strm["orig"].kind = "Permutations" =>
        LET o == out["orig"]
            B == strm["orig"].buf
        IN /\ NoPanic("orig")
           /\ ItemsThenNone("orig")
           /\ \A i \in 1..Len(o) : o[i].r.tag = "Ok" =>
                 /\ Len(o[i].r.v.l) = Len(B)
                 /\ {o[i].r.v.l[p] : p \in 1..Len(B)} = {B[p] : p \in 1..Len(B)}
                 /\ (i > 1 => LexLess(o[i - 1].r.v.l, o[i].r.v.l))
           /\ Ended("orig") =>
                 (ItemsFrom("orig", 1) = Fact(Len(B)) /\ strm["orig"].st = 0)

\* The same for the buffers of at least one element (not part of C5).
PermutationsCompleteNonEmpty ==
    Len(strm["orig"].buf) > 0 => C5_PermutationsComplete

\* The bits of k over n positions, the most significant first.
MaskOf(k, n) == [p \in 1..n |-> (k \div Pow(2, n - p)) % 2 = 1]

\* C6: Subsequences over B started at the all-false mask yields 2^|B|
\* items in big-endian binary mask order, each the elements of B under
\* the true bits in their order; len() is 2^|B| at the start, and after
\* every pull the number of items still to come (0 once terminal).
C6_SubsequencesOrderAndLen ==
    strm["orig"].kind = "Subsequences" =>
        LET o == out["orig"]
            B == strm["orig"].buf
            total == Pow(2, Len(B))
        IN /\ NoPanic("orig")
           /\ \A i \in 1..Len(o) :
                 IF i <= total
                 THEN /\ o[i].r = Ok(List(Masked(B, MaskOf(i - 1, Len(B)), 1)))
                      /\ o[i].len = total - (i - 1)
                 ELSE o[i].r = None /\ o[i].len = 0
           /\ SubsequencesLen(strm["orig"], heap) = Max(total - Len(o), 0)

\* Subsequences over three elements pulled past its eighth, last item.
C6_Witness ==
    /\ strm["orig"].kind = "Subsequences"
    /\ Len(strm["orig"].buf) = 3
    /\ Ended("orig")
    /\ ItemsFrom("orig", 1) = 8
    /\ out["orig"][1].len = 8
    /\ out["orig"][4].r = Ok(List(<<20, 30>>))

\* The digits of k in base m over n positions, the last digit fastest.
DigitsOf(k, m, n) == [p \in 1..n |-> (k \div Pow(m, n - p)) % m]

\* C7: CartesianPower over a buffer of any size m >= 0 with an index
\* vector of any length n >= 0, started at all zeros, yields m^n items in
\* odometer order and is terminal afterwards, every digit staying in 0..m.
C7_CartesianPowerOdometer ==
    strm["orig"].kind = "CartesianPower" =>
        LET o == out["orig"]
            B == strm["orig"].buf
            m == Len(B)
        IN /\ NoPanic("orig")
           /\ strm["orig"].st # 0 =>
                 \A p \in 1..Len(heap[strm["orig"].st].val) :
                     heap[strm["orig"].st].val[p] \in 0..m
           /\ \A i \in 1..Len(o) :
                 IF i <= Pow(m, Len(o[1].r.v.l))
                 THEN /\ o[i].r.tag = "Ok"
                      /\ o[i].r.v.l = Materialize(B,
                             DigitsOf(i - 1, m, Len(o[1].r.v.l)))
                 ELSE o[i].r = None /\ strm["orig"].st = 0

\* The same for the non-empty buffers (not part of C7).
CartesianPowerOdometerNonEmpty ==
    Len(strm["orig"].buf) > 0 => C7_CartesianPowerOdometer

\* C8: the cursor of a Cycle stays in [0, len) after any pulls and
\* reversals; Cycle(B, 0) pulled i times and indexed at 0 gives
\* B[i mod len]; indexing at the signed offset j gives
\* B[(cursor + j) mod len] with the floored modulo, which for j >= 0 is
\* the item the (j+1)-th further pull returns.
C8_CycleCursorAndIndex ==
    /\ \A hd \in Handles :
          strm[hd].kind = "Cycle" => strm[hd].cur \in 0..(Len(strm[hd].buf) - 1)
    /\ (strm["orig"].kind = "Cycle" /\ idx # <<>>) =>
          LET s == strm["orig"]
              j == idx[1].i
              n == Len(s.buf)
          IN /\ idx[1].r = Ok(Num(s.buf[((s.cur + j) % n) + 1]))
             /\ j >= 0 => idx[1].r = Drain(s, heap, j + 1)[j + 1]
             /\ (ctor.cur = 0 /\ j = 0) =>
                   idx[1].r = Ok(Num(ctor.buf[(Len(out["orig"]) % n) + 1]))

\* A three-element Cycle built at cursor 0, pulled four times, reversed in
\* between or not, and then indexed at a negative offset.
C8_Witness ==
    /\ strm["orig"].kind = "Cycle"
    /\ Len(strm["orig"].buf) = 3
    /\ ctor.cur = 0
    /\ Len(out["orig"]) = 4
    /\ idx # <<>>
    /\ idx[1].i = -2
    /\ idx[1].r = Ok(Num(30))

\* C9: the stream returned by reversing Cycle(B, c), pulled len(B) times,
\* yields the reverse of the len(B) items pulled from Cycle(B, c).
C9_ReversedMirrors ==
    (/\ forkMode = "reversed"
     /\ Len(out["fork"]) >= Len(strm["orig"].buf)
     /\ Len(out["orig"]) >= forkAt + Len(strm["orig"].buf))
    => LET n == Len(strm["orig"].buf)
       IN [i \in 1..n |-> out["fork"][i].r]
            = Rev([i \in 1..n |-> out["orig"][forkAt + i].r])

\* Cycle([10,20,30]) reversed at cursor 1, both streams pulled three times.
C9_Witness ==
    /\ forkMode = "reversed"
    /\ strm["orig"].buf = Buf(3)
    /\ forkAt = 1
    /\ ctor.cur = 0
    /\ Len(out["fork"]) = 3
    /\ Len(out["orig"]) = 4
    /\ Results("fork") = <<Ok(Num(10)), Ok(Num(30)), Ok(Num(20))>>

FunctionalKinds == {"Iterate", "MappedStream", "StridedStream", "ScannedStream"}

\* C10: no pull of Iterate, MappedStream, StridedStream or ScannedStream
\* returns the graceful-termination fault Break(None) as an error item;
\* the consumer sees only the end of the sequence.
C10_BreakNeverLeaks ==
    strm["orig"].kind \in FunctionalKinds =>
        \A i \in 1..Len(out["orig"]) : out["orig"][i].r # Err(Break)

\* The same for Iterate alone (not part of C10).
IterateNeverLeaksBreak ==
    strm["orig"].kind = "Iterate" => C10_BreakNeverLeaks

\* The last result pulled through handle hd.
LastOut(hd) == out[hd][Len(out[hd])]

\* Handle hd has just been pulled.
Pulled(hd) == Len(out'[hd]) = Len(out[hd]) + 1

\* C11: a pull of a functional combinator that meets a fault, from its
\* callable or from its inner stream, stores that fault; every pull of a
\* combinator holding a fault other than graceful termination returns that
\* fault, and every pull of one holding graceful termination returns no
\* item.
C11_StoredFaultReplayed ==
    [][\A hd \in Handles :
          (strm[hd].kind \in FunctionalKinds /\ Pulled(hd)) =>
              /\ (strm[hd].res = "Ok" /\ LastOut(hd)'.r.tag = "Err") =>
                    (strm'[hd].res = "Err" /\ strm'[hd].err = LastOut(hd)'.r.e)
              /\ (strm[hd].res = "Err" /\ strm[hd].err # Break) =>
                    LastOut(hd)'.r = Err(strm[hd].err)
              /\ (strm[hd].res = "Err" /\ strm[hd].err = Break) =>
                    LastOut(hd)'.r = None]_vars

\* The same for Iterate alone (not part of C11): its match on the stored
\* result has an arm that returns the fault again.
IterateReplaysStoredFault ==
    [][(strm["orig"].kind = "Iterate" /\ Pulled("orig")) =>
          /\ (strm["orig"].res = "Err" /\ strm["orig"].err # Break) =>
                LastOut("orig")'.r = Err(strm["orig"].err)
          /\ (strm["orig"].res = "Err" /\ strm["orig"].err = Break) =>
                LastOut("orig")'.r = None]_vars

\* C12: a HeapStream pull whose callable raises a fault returns that fault
\* as its result, and no later pull returns it again.
C12_HeapFaultSurfaced ==
    [][(strm["orig"].kind = "HeapStream" /\ Pulled("orig")
        /\ strm["orig"].res = "Ok" /\ strm["orig"].q # <<>>) =>
          LET ret == Run(strm["orig"].func, <<Num(strm["orig"].q[1])>>)
          IN ret.tag = "Err" =>
                /\ LastOut("orig")'.calls = 1
                /\ LastOut("orig")'.r = Err(ret.e)
                /\ \A i \in 1..Len(out["orig"]) : out["orig"][i].r # Err(ret.e)]_vars

\* The results of f over the results rs of an inner stream: an item x
\* becomes f(x), the end stays the end.
RECURSIVE MapResults(_, _)
MapResults(f, rs) ==
    IF rs = <<>> THEN <<>>
    ELSE <<IF rs[1].tag = "Ok" THEN Run(f, <<rs[1].v>>) ELSE rs[1]>>
         \o MapResults(f, Tail(rs))

\* The callable f returns a value on every item of rs.
NonFaulting(f, rs) ==
    \A i \in 1..Len(rs) : rs[i].tag = "Ok" => Run(f, <<rs[i].v>>).tag = "Ok"

\* C13: a MappedStream whose callable faults on no item of its inner
\* stream, and whose inner stream yields items until it ends, returns on
\* its i-th pull f of the i-th item of the inner stream, and returns no
\* item exactly from the pull on which the inner stream returns none; over
\* Range(0, Some(3), 1) with x -> x*x it returns 0, 1, 4 and then ends.
C13_MappedYieldsImages ==
    strm["orig"].kind = "MappedStream" =>
        LET rs == Drain(ctor.inner, ctorHeap, Len(out["orig"]))
        IN /\ (NonFaulting(ctor.func, rs) /\ \A i \in 1..Len(rs) : rs[i].tag # "Err") =>
                 /\ Results("orig") = MapResults(ctor.func, rs)
                 /\ \A i \in 1..Len(rs) :
                       (out["orig"][i].r.tag = "None") = (rs[i].tag = "None")
           /\ (ctor.inner = UpTo(3) /\ ctor.func = Func("square", "none", 0)) =>
                 \A i \in 1..Len(out["orig"]) :
                     out["orig"][i].r =
                         IF i <= 3 THEN Ok(Num((i - 1) * (i - 1))) ELSE None

\* MappedStream(Range(0, Some(3), 1), x -> x*x) pulled four times.
C13_Witness ==
    /\ strm["orig"].kind = "MappedStream"
    /\ ctor.inner = UpTo(3)
    /\ ctor.func = Func("square", "none", 0)
    /\ Results("orig") = <<Ok(Num(0)), Ok(Num(1)), Ok(Num(4)), None>>

\* C14: a functional combinator whose stored result is a fault, graceful
\* or not, keeps that fault at every step: a pull leaves it in place and
\* neither runs the callable nor pulls the inner stream, and a clone of
\* it holds the same fault.
C14_PoisonAbsorbing ==
    [][/\ \A hd \in Handles :
             (strm[hd].kind \in FunctionalKinds /\ strm[hd].res = "Err") =>
                 /\ strm'[hd].kind = strm[hd].kind
                 /\ strm'[hd].res = "Err"
                 /\ strm'[hd].err = strm[hd].err
                 /\ Pulled(hd) =>
                       (LastOut(hd)'.calls = 0 /\ LastOut(hd)'.pulls = 0)
       /\ (/\ forkMode = "none"
           /\ forkMode' = "clone"
           /\ strm["orig"].kind \in FunctionalKinds
           /\ strm["orig"].res = "Err") =>
              /\ strm'["fork"].kind = strm["orig"].kind
              /\ strm'["fork"].res = "Err"
              /\ strm'["fork"].err = strm["orig"].err]_vars

\* A ScannedStream that met a fault of its callable, was cloned afterwards,
\* and was then pulled again through both copies.
C14_Witness ==
    /\ forkMode = "clone"
    /\ strm["orig"].kind = "ScannedStream"
    /\ strm["orig"].res = "Err"
    /\ strm["orig"].err = Throw
    /\ strm["fork"].res = "Err"
    /\ forkAt >= 1
    /\ forkAt < Len(out["orig"])
    /\ out["orig"][forkAt].r = Err(Throw)
    /\ Len(out["fork"]) > 0

\* C15 as claimed: in Iterate(0, f) with f raising a fault other than
\* graceful termination on the number a, the pull that runs f on a returns
\* that fault, and every later pull returns no item.
C15_IterateFaultOnOffendingPull ==
    (strm["orig"].kind = "Iterate" /\ ctor.func.fault = Throw) =>
        \A i \in 1..Len(out["orig"]) :
            out["orig"][i].r =
                IF i <= ctor.func.at THEN Ok(Num(i - 1))
                ELSE IF i = ctor.func.at + 1 THEN Err(Throw)
                ELSE None

\* C15 as amended: in Iterate(0, f) with f raising a fault other than
\* graceful termination on the number a, the pull that runs f on a (the
\* last pull to run f) still returns its item a and poisons the stream,
\* and every later pull returns that fault.
C15_IterateFaultOnLaterPulls ==
    (strm["orig"].kind = "Iterate" /\ ctor.func.fault = Throw) =>
        /\ \A i \in 1..Len(out["orig"]) :
              /\ out["orig"][i].r =
                    IF i <= ctor.func.at + 1 THEN Ok(Num(i - 1)) ELSE Err(Throw)
              /\ out["orig"][i].calls = IF i <= ctor.func.at + 1 THEN 1 ELSE 0
        /\ (strm["orig"].res = "Err") = (Len(out["orig"]) > ctor.func.at)
        /\ strm["orig"].res = "Err" => strm["orig"].err = Throw

\* Iterate(0, f) with f faulting on 1: the second pull runs f on 1 and
\* returns 1, the third and fourth pulls return the fault.
C15_Witness ==
    /\ strm["orig"].kind = "Iterate"
    /\ ctor.func = Func("succ", Throw, 1)
    /\ Results("orig") = <<Ok(Num(0)), Ok(Num(1)), Err(Throw), Err(Throw)>>

\* How many of the first k pulls through hd ran the stream's own callable.
CallsUpTo(hd, k) == Cardinality({i \in 1..k : out[hd][i].calls = 1})

\* No pull of MappedStream, StridedStream or ScannedStream computes ahead:
\* a MappedStream pull makes one inner pull and runs f once when it
\* returns an item and not at all when it returns the end; the first pull
\* of a ScannedStream makes no inner pull and runs nothing, each later one
\* makes at most one inner pull and runs f at most once; a StridedStream
\* of stride >= 1 makes one inner pull for its first item and stride inner
\* pulls for each later item, and never more than that.
PullsAreMinimal ==
    LET o == out["orig"]
    IN /\ strm["orig"].kind = "MappedStream" =>
             \A i \in 1..Len(o) :
                 /\ o[i].pulls <= 1 /\ o[i].calls <= o[i].pulls
                 /\ o[i].r.tag = "Ok" => (o[i].pulls = 1 /\ o[i].calls = 1)
                 /\ o[i].r.tag = "None" => o[i].calls = 0
       /\ strm["orig"].kind = "ScannedStream" =>
             \A i \in 1..Len(o) :
                 /\ i = 1 => (o[i].pulls = 0 /\ o[i].calls = 0 /\ o[i].r = Ok(ctor.init))
                 /\ o[i].pulls <= 1 /\ o[i].calls <= o[i].pulls
                 /\ (i > 1 /\ o[i].r.tag = "Ok") => (o[i].pulls = 1 /\ o[i].calls = 1)
       /\ (strm["orig"].kind = "StridedStream" /\ ctor.stride >= 1) =>
             \A i \in 1..Len(o) :
                 /\ o[i].calls = 0
                 /\ o[i].pulls <= (IF i = 1 THEN 1 ELSE ctor.stride)
                 /\ o[i].r.tag = "Ok" =>
                       o[i].pulls = (IF i = 1 THEN 1 ELSE ctor.stride)

\* C16 as claimed: no pull of a functional combinator computes ahead, and
\* the pulls that return the first k items of Iterate run f no more often
\* than the k-1 times it takes to obtain the seed, f(seed), ...,
\* f^(k-1)(seed).
C16_IterateNeverAhead ==
    /\ PullsAreMinimal
    /\ strm["orig"].kind = "Iterate" =>
          \A k \in 1..Len(out["orig"]) :
              out["orig"][k].r.tag = "Ok" => CallsUpTo("orig", k) <= k - 1

\* C16 as amended: MappedStream, StridedStream and ScannedStream never
\* compute ahead; Iterate runs f exactly once in every pull that returns
\* an item, the first included, so the pulls that return its first k items
\* run f k times, one more than those k values take, and a pull of a
\* poisoned Iterate runs nothing.
C16_IterateOneAhead ==
    /\ PullsAreMinimal
    /\ strm["orig"].kind = "Iterate" =>
          \A k \in 1..Len(out["orig"]) :
              /\ out["orig"][k].pulls = 0
              /\ out["orig"][k].calls = IF out["orig"][k].r.tag = "Ok" THEN 1 ELSE 0
              /\ out["orig"][k].r.tag = "Ok" => CallsUpTo("orig", k) = k

\* StridedStream of stride 2 over Range(0, Some(3), 1): the first item
\* took one inner pull, the second two, and the third pull met the end on
\* its first inner pull.
C16_Witness ==
    /\ strm["orig"].kind = "StridedStream"
    /\ ctor.stride = 2
    /\ ctor.inner = UpTo(3)
    /\ Len(out["orig"]) = 3
    /\ out["orig"][1].pulls = 1
    /\ out["orig"][2].r = Ok(Num(2))
    /\ out["orig"][2].pulls = 2
    /\ out["orig"][3].r = None
    /\ out["orig"][3].pulls = 1

\* The item an enumerator s makes of its index state: the buffer elements
\* at the indices, or under the true bits of a mask.
StateItem(s, h) ==
    IF s.kind = "Subsequences" THEN List(Masked(s.buf, h[s.st].val, 1))
    ELSE List(Materialize(s.buf, h[s.st].val))

\* C17: for Permutations, Combinations, Subsequences and CartesianPower, a
\* pull in state None leaves the state None and returns no item; a pull
\* that returns an item returns the item of the state as it was before the
\* pull; and once an item has been returned, a pull returns no item only
\* in state None, so the pull that returned the last item set the state
\* to None.
C17_NoneAbsorbingPreAdvance ==
    [][(strm["orig"].kind \in EnumKinds /\ Pulled("orig")) =>
          /\ strm["orig"].st = 0 =>
                (strm'["orig"].st = 0 /\ LastOut("orig")'.r = None)
          /\ LastOut("orig")'.r.tag = "Ok" =>
                /\ strm["orig"].st # 0
                /\ LastOut("orig")'.r.v = StateItem(strm["orig"], heap)
          /\ (LastOut("orig")'.r = None /\ ItemsFrom("orig", 1) > 0) =>
                strm["orig"].st = 0]_vars

\* CartesianPower over [10, 20] with two indices pulled to its end and
\* once more: the fourth pull returned the last item and the fifth none.
C17_Witness ==
    /\ strm["orig"].kind = "CartesianPower"
    /\ strm["orig"].st = 0
    /\ Results("orig") =
          <<Ok(List(<<10, 10>>)), Ok(List(<<10, 20>>)), Ok(List(<<20, 10>>)),
            Ok(List(<<20, 20>>)), None, None>>

\* How many items the results rs hold.
Items(rs) == Cardinality({i \in 1..Len(rs) : rs[i].tag = "Ok"})

\* C18: for Permutations over a buffer of n >= 1 elements started at the
\* identity, len() is n! before the first pull and one less before each
\* further pull down to 0, and in every state reached len() is the number
\* of items the stream still returns when pulled to its end.
C18_PermutationsLenExact ==
    (strm["orig"].kind = "Permutations" /\ Len(strm["orig"].buf) >= 1) =>
        LET n == Len(strm["orig"].buf)
        IN /\ \A i \in 1..Len(out["orig"]) :
                 out["orig"][i].len = Max(Fact(n) - (i - 1), 0)
           /\ PermutationsLen(strm["orig"], heap)
                 = Items(Drain(strm["orig"], heap, Fact(n) + 1))
           /\ PermutationsLen(strm["orig"], heap)
                 = Max(Fact(n) - Len(out["orig"]), 0)
           /\ strm["orig"].st = 0 => PermutationsLen(strm["orig"], heap) = 0

\* Permutations of three elements after four pulls: len() is 2.
C18_Witness ==
    /\ strm["orig"].kind = "Permutations"
    /\ Len(strm["orig"].buf) = 3
    /\ Len(out["orig"]) = 4
    /\ out["orig"][1].len = 6
    /\ PermutationsLen(strm["orig"], heap) = 2

\* n choose k.
Choose(n, k) == IF k > n THEN 0 ELSE Fact(n) \div (Fact(k) * Fact(n - k))

\* v is strictly increasing with every entry an index below n.
IncreasingBelow(v, n) ==
    /\ \A p \in 1..Len(v) : v[p] \in 0..(n - 1)
    /\ \A p \in 2..Len(v) : v[p - 1] < v[p]

\* The indices into Buf(n) of the elements of item l.
IndicesOf(l) == [p \in 1..Len(l) |-> (l[p] \div 10) - 1]

\* C19: Combinations over a buffer of n elements with k indices started
\* at 0, 1, ..., k-1. For k <= n (k = 0 and k = n included) no pull
\* crashes, every item is the buffer at a strictly increasing k-vector of
\* indices below n, the items come in strictly increasing lexicographic
\* order, there are n-choose-k of them when the stream has ended, and the
\* index state is strictly increasing with entries below n until it is
\* None. For k > n every pull returns no item and none crashes.
C19_CombinationsComplete ==
    strm["orig"].kind = "Combinations" =>
        LET o == out["orig"]
            n == Len(strm["orig"].buf)
            k == Len(ctorHeap[1].val)
        IN /\ NoPanic("orig")
           /\ k <= n =>
                 /\ ItemsThenNone("orig")
                 /\ \A i \in 1..Len(o) : o[i].r.tag = "Ok" =>
                       /\ Len(o[i].r.v.l) = k
                       /\ IncreasingBelow(IndicesOf(o[i].r.v.l), n)
                       /\ (i > 1 => LexLess(o[i - 1].r.v.l, o[i].r.v.l))
                 /\ (Len(o) > 0 /\ k = 0) => o[1].r = Ok(List(<<>>))
                 /\ Ended("orig") =>
                       (ItemsFrom("orig", 1) = Choose(n, k) /\ strm["orig"].st = 0)
                 /\ strm["orig"].st # 0 =>
                       /\ Len(heap[strm["orig"].st].val) = k
                       /\ IncreasingBelow(heap[strm["orig"].st].val, n)
           /\ k > n => \A i \in 1..Len(o) : o[i].r = None

\* The three combinations of two out of [10, 20, 30], and the end.
C19_Witness ==
    /\ strm["orig"].kind = "Combinations"
    /\ Results("orig") =
          <<Ok(List(<<10, 20>>)), Ok(List(<<10, 30>>)), Ok(List(<<20, 30>>)), None>>

\* Combinations of three out of [10, 20]: two pulls, no item.
CombinationsTooManyIndices ==
    /\ strm["orig"].kind = "Combinations"
    /\ Len(strm["orig"].buf) = 2
    /\ Len(ctorHeap[1].val) = 3
    /\ Results("orig") = <<None, None>>

\* The place of the first result of rs among the first k that is no item,
\* 0 when all of them are items.
RECURSIVE FirstNonItem(_, _)
FirstNonItem(rs, k) ==
    IF k = 0 THEN 0
    ELSE LET j == FirstNonItem(rs, k - 1)
         IN IF j # 0 THEN j ELSE IF rs[k].tag # "Ok" THEN k ELSE 0

\* What the i-th pull of a StridedStream of the given stride returns over
\* an inner stream whose results are rs: the item at ordinal position
\* (i-1)*stride, or the end or fault of the inner stream met on the way
\* there, or no item once an earlier pull has met one.
StridedExpected(rs, stride, i) ==
    LET want == (i - 1) * stride + 1
        j == FirstNonItem(rs, want)
    IN IF j = 0 THEN rs[want]
       ELSE IF i = 1 \/ j > (i - 2) * stride + 1 THEN rs[j]
       ELSE None

\* How many inner pulls the pulls through hd made together.
RECURSIVE InnerPulls(_, _)
InnerPulls(hd, k) == IF k = 0 THEN 0 ELSE out[hd][k].pulls + InnerPulls(hd, k - 1)

\* C20: a StridedStream of stride >= 1 started at position 0 returns the
\* items of its inner stream at the ordinal positions 0, stride,
\* 2*stride, ... in order; while it is active its position counter is the
\* number of items it has taken from the inner stream; the pull that
\* finds the inner stream exhausted returns no item and so does every pull
\* after it; the pull that meets a fault of the inner stream returns that
\* fault.
C20_StridedKeepsMultiples ==
    (strm["orig"].kind = "StridedStream" /\ ctor.stride >= 1) =>
        LET o == out["orig"]
            rs == Drain(ctor.inner, ctorHeap, Len(o) * ctor.stride + 1)
        IN /\ \A i \in 1..Len(o) : o[i].r = StridedExpected(rs, ctor.stride, i)
           /\ strm["orig"].res = "Ok" =>
                 /\ strm["orig"].pos = InnerPulls("orig", Len(o))
                 /\ \A i \in 1..Len(o) : o[i].r.tag = "Ok"
           /\ \A i \in 1..Len(o) : o[i].r.tag # "Ok" => strm["orig"].res = "Err"
           /\ \A i \in 2..Len(o) : o[i - 1].r.tag # "Ok" => o[i].r = None

\* Stride 2 over a MappedStream of Range(0, Some(3), 1) whose callable
\* faults on its second item: the second pull meets the fault while
\* skipping and returns it, the third returns no item.
C20_Witness ==
    /\ strm["orig"].kind = "StridedStream"
    /\ ctor.stride = 2
    /\ ctor.inner.kind = "MappedStream"
    /\ ctor.inner.func = Func("succ", Throw, 1)
    /\ Results("orig") = <<Ok(Num(1)), Err(Throw), None>>

\* The running fold of f from init over the results rs of an inner
\* stream: init first, then f of the previous result and the next item;
\* past the end of the inner stream, or a fault, there is no item.
RECURSIVE ScanResults(_, _, _, _)
ScanResults(f, init, rs, k) ==
    IF k = 0 THEN <<Ok(init)>>
    ELSE LET prev == ScanResults(f, init, rs, k - 1)
             acc == prev[k]
         IN Append(prev,
                   IF acc.tag = "Ok" /\ rs[k].tag = "Ok"
                     THEN Run(f, <<acc.v, rs[k].v>>)
                   ELSE None)

\* C21: a ScannedStream whose callable faults on none of its calls, over
\* an inner stream that returns items until it ends, returns init on its
\* first pull without pulling the inner stream, and on each later pull f
\* of the item it returned on the pull before and of the next inner item,
\* which it keeps as its accumulator; over n inner items it returns n+1
\* items and then none.
C21_ScannedRunningFold ==
    (strm["orig"].kind = "ScannedStream" /\ Len(out["orig"]) > 0) =>
        LET o == out["orig"]
            rs == Drain(ctor.inner, ctorHeap, Len(o) - 1)
            want == ScanResults(ctor.func, ctor.init, rs, Len(o) - 1)
        IN (/\ \A i \in 1..Len(rs) : rs[i].tag # "Err"
            /\ \A i \in 1..Len(want) : want[i].tag # "Err") =>
              /\ Results("orig") = want
              /\ o[1].r = Ok(ctor.init) /\ o[1].pulls = 0 /\ o[1].calls = 0
              /\ \A i \in 2..Len(o) :
                    o[i].pulls = IF o[i - 1].r.tag = "Ok" THEN 1 ELSE 0
              /\ strm["orig"].res = "Ok" =>
                    strm["orig"].acc = <<o[Len(o)].r.v>>
              /\ Ended("orig") => ItemsFrom("orig", 1) = Items(rs) + 1
              /\ \A i \in 2..Len(o) :
                    (o[i].r.tag = "None") = (rs[i - 1].tag = "None")

\* ScannedStream(Range(0, Some(3), 1), 0, +) pulled five times: the four
\* prefixes of the running sum, then the end.
C21_Witness ==
    /\ strm["orig"].kind = "ScannedStream"
    /\ ctor.inner = UpTo(3)
    /\ ctor.func = Func("add", "none", 0)
    /\ Results("orig") = <<Ok(Num(0)), Ok(Num(0)), Ok(Num(1)), Ok(Num(3)), None>>

\* C22: a HeapStream pull whose callable returns a value that is no list
\* returns a type-mismatch fault, removes the popped element and nothing
\* else from the queue, pushes nothing and leaves the stream active with
\* its callable; the pull after it pops the next element and, the
\* callable returning a list there, returns an item and pushes the list;
\* a pull on an empty queue returns no item and no fault and leaves the
\* stream as it is.
C22_HeapNonListNotPoisoning ==
    [][(strm["orig"].kind = "HeapStream" /\ Pulled("orig")) =>
          LET s == strm["orig"]
              ret == Run(s.func, <<Num(s.q[1])>>)
          IN /\ (s.q # <<>> /\ ret.tag = "Ok" /\ ret.v.t # "List") =>
                   /\ LastOut("orig")'.r = Err(TypeError)
                   /\ strm'["orig"] = [s EXCEPT !.q = Tail(s.q)]
                   /\ strm'["orig"].res = "Ok"
             /\ (/\ Len(out["orig"]) > 0
                 /\ LastOut("orig").r = Err(TypeError)
                 /\ s.q # <<>> /\ ret.tag = "Ok" /\ ret.v.t = "List") =>
                   /\ LastOut("orig")'.r = Ok(ret.v)
                   /\ strm'["orig"].q = HeapExtend(Tail(s.q), ret.v.l)
             /\ s.q = <<>> =>
                   (LastOut("orig")'.r = None /\ strm'["orig"] = s)
             /\ s.res = "Ok"]_vars

\* HeapStream seeded with 3 whose callable returns x-1 and x-2 as a list,
\* but the number 1 itself on 1: the two pulls that pop a 1 return the
\* fault, the pull after them pops 0 and returns an item, the last finds
\* the queue empty.
C22_Witness ==
    /\ strm["orig"].kind = "HeapStream"
    /\ ctor = HeapStreamNew(3, Func("fan", "NonList", 1))
    /\ Results("orig") =
          <<Ok(List(<<2, 1>>)), Ok(List(<<1, 0>>)), Err(TypeError),
            Err(TypeError), Ok(List(<<>>)), None>>
    /\ strm["orig"].res = "Ok"

\* The kinds that hold neither a callable nor an inner stream.
PlainKinds == {"Repeat", "Cycle", "Range"} \cup EnumKinds

\* C23: for Repeat, Cycle, Range, Permutations, Combinations,
\* Subsequences and CartesianPower, the i-th pull of a clone and the i-th
\* pull of the original after the cloning return the same result and see
\* the same len(), whichever copy is pulled first; and whenever both have
\* been pulled equally often since the cloning they are in the same state,
\* with the same len() and the same output to come.
C23_ForkEquivalence ==
    (forkMode = "clone" /\ strm["orig"].kind \in PlainKinds) =>
        LET f == out["fork"]
            o == out["orig"]
        IN /\ \A i \in 1..Len(f) : forkAt + i <= Len(o) =>
                 /\ f[i].r = o[forkAt + i].r
                 /\ f[i].len = o[forkAt + i].len
           /\ Len(f) = Len(o) - forkAt =>
                 View(strm["fork"], heap) = View(strm["orig"], heap)

\* Subsequences of [10, 20] cloned after one pull, the clone pulled four
\* times and the original four times since: both returned their last
\* item on the third of these pulls and none on the fourth.
C23_Witness ==
    /\ forkMode = "clone"
    /\ strm["orig"].kind = "Subsequences"
    /\ Len(strm["orig"].buf) = 2
    /\ forkAt = 1
    /\ Len(out["fork"]) = 4
    /\ Len(out["orig"]) = 5
    /\ out["fork"][3].r = Ok(List(<<10, 20>>))
    /\ out["fork"][4].r = None

====
